---- MODULE Spec2Model ----
(***************************************************************************)
(* Outbound SMTP client of sail: the reply-driven session state machine    *)
(* (Client::push / Client::process_reply), and the dispatcher              *)
(* (Client::run / Client::send_to_ip) with its resolver helpers.           *)
(*                                                                         *)
(* Text is modelled as a sequence of one-character strings; "CR" and "LF"  *)
(* stand for the bytes 0x0D and 0x0A, "NA" for a non-ASCII character.      *)
(***************************************************************************)
EXTENDS Integers, Sequences, FiniteSets, TLC

VARIABLES
    client,      \* the session under test: [state, reply, forward_paths]
    emitted,     \* every Some(command) that push has returned, in order
    panicked,    \* the session hit todo!() / unreachable!()
    fed,         \* the fragments handed to push so far, in order
    last,        \* the most recent push call: its fragment, result and pre-state
    paths0,      \* the forward paths the session was initiated with
    byLine,      \* a session fed each reply line in one push call
    byByte,      \* a session fed the same reply lines one byte per push call
    pending,     \* bytes of the current line not yet pushed to byByte
    nlines,      \* reply lines fed to byLine so far
    message,     \* run: the forward paths of the message being dispatched
    pc,          \* run: position ("group", "resolve", "connect", "session", "end", "panicked")
    crash,       \* run: the panic that ended the process, "" while it runs
    paths_by_domain, \* run: the groups, in the order the loop visits them
    group,       \* run: index of the group the loop is at
    outcome,     \* run: per group, how its dispatch ended ("pending" before)
    dns,         \* run: trace of the resolution just performed
    address,     \* run: the address resolved for the current group
    session,     \* send_to_ip: its Client
    buf,         \* send_to_ip: the written prefix of the read buffer (the rest is zero)
    wire,        \* send_to_ip: what has been written to the stream
    reads,       \* send_to_ip: reads of reply bytes so far
    read_log,    \* send_to_ip: what the reads of the latest loop iteration gave
    wrote        \* send_to_ip: what the latest loop iteration wrote to the stream

sessionVars == <<client, emitted, panicked, fed, last, paths0>>
fragVars == <<byLine, byByte, pending, nlines>>
runVars ==
    <<message, pc, crash, paths_by_domain, group, outcome, dns, address,
      session, buf, wire, reads, read_log, wrote>>
vars == <<sessionVars, fragVars, runVars>>

----------------------------------------------------------------------------
(* Bounds of the model *)

MaxPaths == 2       \* forward paths of the session under test
MaxPushes == 4      \* push calls per session
MaxLines == 3       \* reply lines fed in the fragmentation comparison
MaxRcpts == 2       \* forward paths of a dispatched message
MaxMx == 2          \* MX records in one lookup result
MaxReads == 2       \* reads of reply bytes per connection

----------------------------------------------------------------------------
(* Text helpers *)

CR == "CR"
LF == "LF"
NA == "NA"
CRLF == <<CR, LF>>

Digits == {"0", "1", "2", "3", "4", "5", "6", "7", "8", "9"}

DigitVal(c) ==
    CASE c = "0" -> 0 [] c = "1" -> 1 [] c = "2" -> 2 [] c = "3" -> 3
      [] c = "4" -> 4 [] c = "5" -> 5 [] c = "6" -> 6 [] c = "7" -> 7
      [] c = "8" -> 8 [] c = "9" -> 9

ends_with(s, suffix) ==
    /\ Len(s) >= Len(suffix)
    /\ SubSeq(s, Len(s) - Len(suffix) + 1, Len(s)) = suffix

starts_with(s, prefix) ==
    /\ Len(s) >= Len(prefix)
    /\ SubSeq(s, 1, Len(prefix)) = prefix

is_ascii(s) == \A i \in 1..Len(s) : s[i] # NA

\* str::parse::<u16> on the three-byte code: decimal digits, with an optional
\* leading '+'; anything else is an error (-1 here).
parse_u16(code) ==
    IF \A i \in 1..3 : code[i] \in Digits
    THEN 100 * DigitVal(code[1]) + 10 * DigitVal(code[2]) + DigitVal(code[3])
    ELSE IF code[1] = "+" /\ code[2] \in Digits /\ code[3] \in Digits
    THEN 10 * DigitVal(code[2]) + DigitVal(code[3])
    ELSE -1

----------------------------------------------------------------------------
(* Response codes and commands *)

NoCode == "NoCode"

\* ResponseCode::from_code: the named codes the session acts on, a negative
\* classification for the other 4xx/5xx codes, and no value otherwise.
from_code(n) ==
    CASE n = 220 -> "ServiceReady"
      [] n = 250 -> "Okay"
      [] n = 251 -> "UserNotLocalWillForward"
      [] n = 354 -> "StartMailInput"
      [] n \in 400..599 -> "Negative"
      [] OTHER -> NoCode

Cmd(verb, arg) == [verb |-> verb, arg |-> arg]
None == Cmd("None", <<>>)

Ehlo(domain) == Cmd("Ehlo", <<domain>>)
Mail(reverse_path) == Cmd("Mail", <<reverse_path>>)
Rcpt(forward_path) == Cmd("Rcpt", <<forward_path>>)
Data == Cmd("Data", <<>>)

----------------------------------------------------------------------------
(* Addresses *)

FQDN(name) == [kind |-> "FQDN", name |-> name]
Literal(ip) == [kind |-> "Literal", name |-> ip]

Path(local_part, domain) == [local_part |-> local_part, domain |-> domain]

Regular(path) == [tag |-> "Regular", path |-> path]
Postmaster == [tag |-> "Postmaster", path |-> Path("postmaster", FQDN(""))]

TheReversePath == Regular(Path("s", FQDN("origin")))

\* The i-th recipient of the session under test (all in one domain).
SessionPath(i) == Regular(Path(ToString(i), FQDN("d1")))

----------------------------------------------------------------------------
(* The session: Client *)

States ==
    {"Initiated", "Greeted", "SentReversePath", "SendingForwardPaths",
     "SendingData", "ShouldExit"}

\* Client::initiate: the message, the default state and an empty reply buffer.
initiate(forward_paths) ==
    [state |-> "Initiated", reply |-> <<>>, forward_paths |-> forward_paths]

\* Vec::pop takes the LAST element.
PopRest(v) == SubSeq(v, 1, Len(v) - 1)
PopValue(v) == v[Len(v)]

Outcome(c, ret, panic) == [client |-> c, ret |-> ret, panic |-> panic]

\* process_reply that starts over on an unexpected reply to EHLO.
process_reply_restart(c) ==
    IF Len(c.reply) < 3 \/ ~is_ascii(c.reply) THEN Outcome(c, None, FALSE)
    ELSE LET parsed == parse_u16(SubSeq(c.reply, 1, 3)) IN
    IF parsed = -1 THEN Outcome(c, None, FALSE)
    ELSE LET code == from_code(parsed) IN
    IF code = NoCode THEN Outcome(c, None, FALSE)
    ELSE CASE c.state = "Initiated" ->
                IF code = "ServiceReady"
                THEN Outcome([c EXCEPT !.state = "Greeted"], Ehlo("Sail"), FALSE)
                ELSE Outcome(c, None, TRUE)
           [] c.state = "Greeted" ->
                IF code = "Okay"
                THEN Outcome([c EXCEPT !.state = "SentReversePath"],
                             Mail(TheReversePath), FALSE)
                ELSE Outcome([c EXCEPT !.state = "Initiated"], None, FALSE)
           [] c.state = "SentReversePath" ->
                IF code = "Okay"
                THEN IF c.forward_paths = <<>>
                     THEN Outcome([c EXCEPT !.state = "SendingForwardPaths"],
                                  None, FALSE)
                     ELSE Outcome([c EXCEPT !.state = "SendingForwardPaths",
                                            !.forward_paths = PopRest(@)],
                                  Rcpt(PopValue(c.forward_paths)), FALSE)
                ELSE Outcome(c, None, TRUE)
           [] c.state = "SendingForwardPaths" ->
                IF c.forward_paths # <<>>
                THEN IF code \in {"Okay", "UserNotLocalWillForward"}
                     THEN Outcome([c EXCEPT !.forward_paths = PopRest(@)],
                                  Rcpt(PopValue(c.forward_paths)), FALSE)
                     ELSE Outcome([c EXCEPT !.forward_paths = PopRest(@)],
                                  None, TRUE)
                ELSE IF code \in {"Okay", "UserNotLocalWillForward"}
                     THEN Outcome([c EXCEPT !.state = "SendingData"], Data, FALSE)
                     ELSE Outcome(c, None, TRUE)
           [] c.state = "SendingData" -> Outcome(c, None, TRUE)
           [] c.state = "ShouldExit" -> Outcome(c, None, TRUE)

process_reply(c) ==
    IF Len(c.reply) < 3 \/ ~is_ascii(c.reply) THEN Outcome(c, None, FALSE)
    ELSE LET parsed == parse_u16(SubSeq(c.reply, 1, 3)) IN
    IF parsed = -1 THEN Outcome(c, None, FALSE)
    ELSE LET code == from_code(parsed) IN
    IF code = NoCode THEN Outcome(c, None, FALSE)
    ELSE CASE c.state = "Initiated" ->
                IF code = "ServiceReady"
                THEN Outcome([c EXCEPT !.state = "Greeted"], Ehlo("Sail"), FALSE)
                ELSE Outcome(c, None, TRUE)
           [] c.state = "Greeted" ->
                IF code = "Okay"
                THEN Outcome([c EXCEPT !.state = "SentReversePath"],
                             Mail(TheReversePath), FALSE)
                ELSE Outcome(c, None, TRUE)
           [] c.state = "SentReversePath" ->
                IF code = "Okay"
                THEN IF c.forward_paths = <<>>
                     THEN Outcome([c EXCEPT !.state = "SendingForwardPaths"],
                                  None, FALSE)
                     ELSE Outcome([c EXCEPT !.state = "SendingForwardPaths",
                                            !.forward_paths = PopRest(@)],
                                  Rcpt(PopValue(c.forward_paths)), FALSE)
                ELSE Outcome(c, None, TRUE)
           [] c.state = "SendingForwardPaths" ->
                IF c.forward_paths # <<>>
                THEN IF code \in {"Okay", "UserNotLocalWillForward"}
                     THEN Outcome([c EXCEPT !.forward_paths = PopRest(@)],
                                  Rcpt(PopValue(c.forward_paths)), FALSE)
                     ELSE Outcome([c EXCEPT !.forward_paths = PopRest(@)],
                                  None, TRUE)
                ELSE IF code \in {"Okay", "UserNotLocalWillForward"}
                     THEN Outcome([c EXCEPT !.state = "SendingData"], Data, FALSE)
                     ELSE Outcome(c, None, TRUE)
           [] c.state = "SendingData" -> Outcome(c, None, TRUE)
           [] c.state = "ShouldExit" -> Outcome(c, None, TRUE)

\* push with the terminator test reduced to the final LF.
push_lf_only(c, reply) ==
    LET appended == [c EXCEPT !.reply = @ \o reply] IN
    IF ~ends_with(appended.reply, <<LF>>)
    THEN Outcome(appended, None, FALSE)
    ELSE process_reply(appended)

\* push that keeps only the newest fragment instead of appending it.
push_replace(c, reply) ==
    LET appended == [c EXCEPT !.reply = reply] IN
    IF ~ends_with(appended.reply, CRLF)
    THEN Outcome(appended, None, FALSE)
    ELSE process_reply(appended)

\* push that empties the reply buffer once a complete line has been processed.
push_clear(c, reply) ==
    LET appended == [c EXCEPT !.reply = @ \o reply] IN
    IF ~ends_with(appended.reply, CRLF)
    THEN Outcome(appended, None, FALSE)
    ELSE LET r == process_reply(appended) IN
         Outcome([r.client EXCEPT !.reply = <<>>], r.ret, r.panic)

push(c, reply) ==
    LET appended == [c EXCEPT !.reply = @ \o reply] IN
    IF ~ends_with(appended.reply, CRLF)
    THEN Outcome(appended, None, FALSE)
    ELSE process_reply(appended)

should_exit(c) == c.state = "ShouldExit"

----------------------------------------------------------------------------
(* Reply text the peer may send *)

CodeText(n) ==
    <<CHOOSE d \in Digits : DigitVal(d) = n \div 100,
      CHOOSE d \in Digits : DigitVal(d) = (n \div 10) % 10,
      CHOOSE d \in Digits : DigitVal(d) = n % 10>>

Line(n) == CodeText(n) \o CRLF

ReplyCodes == {220, 250, 251, 354, 550, 999}

Fragments ==
    {Line(n) : n \in ReplyCodes}
        \cup {<<"2">>, <<"2", "0">>, <<CR>>, <<LF>>, <<NA>> \o CRLF}

----------------------------------------------------------------------------
(* Specification of one session driven through push *)

NoCall ==
    [frag |-> <<>>, ret |-> None, before |-> initiate(<<>>),
     emitted |-> <<>>, called |-> FALSE]

\* A session together with what it has emitted and whether it has panicked.
Started(c) == [client |-> c, emitted |-> <<>>, panicked |-> FALSE]

SessionIdle ==
    /\ paths0 = <<>>
    /\ client = initiate(<<>>)
    /\ emitted = <<>>
    /\ panicked = FALSE
    /\ fed = <<>>
    /\ last = NoCall

FragIdle ==
    /\ byLine = Started(initiate(<<>>))
    /\ byByte = Started(initiate(<<>>))
    /\ pending = <<>>
    /\ nlines = 0

NoAddr == [host |-> "", n |-> 0]
NoMx == [ok |-> FALSE, recs |-> <<>>]
NoDns == [via |-> "none", mx |-> NoMx, exchange |-> "", queries |-> <<>>]

RunIdle ==
    /\ message = <<>>
    /\ pc = "idle"
    /\ crash = ""
    /\ paths_by_domain = <<>>
    /\ group = 0
    /\ outcome = <<>>
    /\ dns = NoDns
    /\ address = NoAddr
    /\ session = initiate(<<>>)
    /\ buf = <<>>
    /\ wire = <<>>
    /\ reads = 0
    /\ read_log = <<>>
    /\ wrote = <<>>

Init ==
    /\ \E n \in 0..MaxPaths :
        /\ paths0 = [i \in 1..n |-> SessionPath(i)]
        /\ client = initiate(paths0)
    /\ emitted = <<>>
    /\ panicked = FALSE
    /\ fed = <<>>
    /\ last = NoCall
    /\ FragIdle
    /\ RunIdle

Push(frag) ==
    /\ ~panicked
    /\ Len(fed) < MaxPushes
    /\ LET r == push(client, frag) IN
        /\ client' = r.client
        /\ panicked' = r.panic
        /\ emitted' = IF r.ret = None THEN emitted ELSE Append(emitted, r.ret)
        /\ last' = [frag |-> frag, ret |-> r.ret, before |-> client,
                    emitted |-> emitted, called |-> TRUE]
    /\ fed' = Append(fed, frag)
    /\ UNCHANGED <<paths0, fragVars, runVars>>

Next == \E frag \in Fragments : Push(frag)

Spec == Init /\ [][Next]_vars

----------------------------------------------------------------------------
(* Specification comparing whole-line and byte-by-byte feeding of push *)

LineTexts ==
    {CodeText(n) : n \in {220, 250, 550}}
        \cup {<<>>, <<"2", "2">>, <<LF>>, <<"2", "2", "0", CR>>, <<"2", "2", "0", NA>>}

ReplyLines == {text \o CRLF : text \in LineTexts}

\* One push call by a caller that collects the returned commands.
feed(s, frag) ==
    IF s.panicked THEN s
    ELSE LET r == push(s.client, frag) IN
         [client |-> r.client,
          emitted |-> IF r.ret = None THEN s.emitted ELSE Append(s.emitted, r.ret),
          panicked |-> r.panic]

FragInit ==
    /\ \E n \in 0..MaxPaths :
        LET fp == [i \in 1..n |-> SessionPath(i)] IN
        /\ byLine = Started(initiate(fp))
        /\ byByte = Started(initiate(fp))
    /\ pending = <<>>
    /\ nlines = 0
    /\ SessionIdle
    /\ RunIdle

FeedLine(line) ==
    /\ pending = <<>>
    /\ nlines < MaxLines
    /\ ~byLine.panicked
    /\ byLine' = feed(byLine, line)
    /\ pending' = line
    /\ nlines' = nlines + 1
    /\ UNCHANGED <<byByte, sessionVars, runVars>>

FeedByte ==
    /\ pending # <<>>
    /\ byByte' = feed(byByte, <<Head(pending)>>)
    /\ pending' = Tail(pending)
    /\ UNCHANGED <<byLine, nlines, sessionVars, runVars>>

FragNext ==
    \/ \E line \in ReplyLines : FeedLine(line)
    \/ FeedByte

SpecFrag == FragInit /\ [][FragNext]_vars

\* C4: once every byte of the lines fed so far has been pushed, the session fed
\* byte by byte has emitted the same commands and is in the same state as the
\* session fed whole lines.
C4_FragmentationEquivalence ==
    pending = <<>>
        => /\ byByte.emitted = byLine.emitted
           /\ byByte.client.state = byLine.client.state
           /\ byByte.client.forward_paths = byLine.client.forward_paths
           /\ byByte.panicked = byLine.panicked

C4_Witness ==
    /\ pending = <<>>
    /\ nlines >= 1
    /\ byByte.emitted # <<>>
    /\ byByte.client.state = "Greeted"

----------------------------------------------------------------------------
(* Claims about one session (checked under Spec) *)

IsPrefix(s, t) == Len(s) <= Len(t) /\ SubSeq(t, 1, Len(s)) = s

\* The last push call completed a CRLF-terminated line in the buffer.
LastCompletedLine ==
    /\ last.called
    /\ ends_with(last.before.reply \o last.frag, CRLF)

\* The happy-path reply lines for n recipients and the actions expected for them.
C1_Replies(n) ==
    <<Line(220), Line(250), Line(250)>> \o [i \in 1..n |-> Line(250)]
        \o <<Line(354), Line(250)>>

C1_Expected(n) ==
    <<Ehlo("Sail"), Mail(TheReversePath)>> \o [i \in 1..n |-> Rcpt(paths0[i])]
        \o <<Data, Cmd("Body", <<>>), Cmd("Quit", <<>>)>>

\* C1: a session with n >= 1 forward paths fed the reply lines 220, 250, 250,
\* 250 (one per path), 354, 250 emits, one action per reply, Ehlo, Mail, Rcpt
\* for each path, Data, the body and Quit, and then should_exit() is true.
C1_HappyPath ==
    (Len(paths0) >= 1 /\ IsPrefix(fed, C1_Replies(Len(paths0))))
        => /\ ~panicked
           /\ emitted = SubSeq(C1_Expected(Len(paths0)), 1, Len(fed))
           /\ (Len(fed) = Len(paths0) + 5 => should_exit(client))

\* C2: once push has classified a complete CRLF-terminated line, the reply
\* buffer is empty again.
C2_BufferReset ==
    (LastCompletedLine /\ last.ret # None) => client.reply = <<>>

\* C3: a push that leaves the buffer without a CRLF terminator returns nothing,
\* emits nothing and changes neither the state nor the remaining forward
\* paths; the buffer grows by exactly the fragment.
C3_IncompleteLineFrame ==
    (last.called /\ ~ends_with(client.reply, CRLF))
        => /\ last.ret = None
           /\ emitted = last.emitted
           /\ ~panicked
           /\ client.state = last.before.state
           /\ client.forward_paths = last.before.forward_paths
           /\ client.reply = last.before.reply \o last.frag

C3_Witness ==
    /\ last.called
    /\ ~ends_with(client.reply, CRLF)
    /\ client.state = "Greeted"
    /\ Len(last.before.reply) < Len(client.reply)

\* The two-recipient scenario: RCPT replies 550 then 250.
C5_Replies == <<Line(220), Line(250), Line(250), Line(550), Line(250)>>

\* C5: with two recipients whose RCPT replies are 550 then 250, the session
\* does not abort on the 550: it goes on to the next recipient and then to Data.
C5_PartialFailure ==
    (Len(paths0) = 2 /\ IsPrefix(fed, C5_Replies))
        => /\ ~panicked
           /\ (Len(fed) >= 4 => client.state \in {"SendingForwardPaths", "SendingData"})
           /\ (Len(fed) = 4 => last.ret.verb = "Rcpt")

\* The code of the buffered reply is a 4xx/5xx code.
IsNegative(reply) ==
    /\ Len(reply) >= 3
    /\ from_code(parse_u16(SubSeq(reply, 1, 3))) = "Negative"

\* C6: a negative reply to the greeting, to EHLO or to MAIL ends the session
\* without a panic and without a further command.
C6_FatalStageNoPanic ==
    (/\ LastCompletedLine
     /\ last.before.state \in {"Initiated", "Greeted", "SentReversePath"}
     /\ IsNegative(last.before.reply \o last.frag))
        => (~panicked /\ last.ret = None)

----------------------------------------------------------------------------
(* The resolver helpers: Client::get_mx_record and Client::get_ip *)

MxPrefs == {10, 20}
MxExchanges == {"mxa", "mxb"}
MxRecords == [pref : MxPrefs, exchange : MxExchanges]

\* What the DNS capability may answer during one resolution.
SeqsUpTo(S, n) == UNION {[1..k -> S] : k \in 0..n}
MxResults == {NoMx} \cup {[ok |-> TRUE, recs |-> r] : r \in SeqsUpTo(MxRecords, MaxMx)}
IpResults == {[ok |-> FALSE, n |-> 0], [ok |-> TRUE, n |-> 0], [ok |-> TRUE, n |-> 1]}
DefaultIps == [ok |-> FALSE, n |-> 0]
AllDnsEnvs ==
    [mx_resolver : BOOLEAN, mx : MxResults, exchange_ips : IpResults,
     ip_resolver : BOOLEAN, domain_ips : IpResults]

\* An answer that is never asked for is left at its default, so that each
\* course of a resolution is drawn once.
AsksExchange(env) == env.mx_resolver /\ env.mx.ok /\ env.mx.recs # <<>>
AsksDomain(env) == ~(AsksExchange(env) /\ env.exchange_ips.ok /\ env.exchange_ips.n >= 1)
DnsEnvs ==
    {env \in AllDnsEnvs :
        /\ ~env.mx_resolver => env.mx = NoMx
        /\ ~AsksExchange(env) => env.exchange_ips = DefaultIps
        /\ ~AsksDomain(env) => (env.ip_resolver /\ env.domain_ips = DefaultIps)
        /\ ~env.ip_resolver => env.domain_ips = DefaultIps}

\* slice::sort_by with |(pref1, _), (pref2, _)| pref1.cmp(pref2): a stable sort,
\* records of equal preference keep their lookup order.
RECURSIVE stable_sort(_)
stable_sort(recs) ==
    IF recs = <<>> THEN <<>>
    ELSE LET init == stable_sort(SubSeq(recs, 1, Len(recs) - 1))
             r == recs[Len(recs)]
             k == Cardinality({i \in 1..Len(init) : init[i].pref <= r.pref})
         IN  SubSeq(init, 1, k) \o <<r>> \o SubSeq(init, k + 1, Len(init))

\* The same sort with the comparison reversed (pref2.cmp(pref1)).
RECURSIVE stable_sort_desc(_)
stable_sort_desc(recs) ==
    IF recs = <<>> THEN <<>>
    ELSE LET init == stable_sort_desc(SubSeq(recs, 1, Len(recs) - 1))
             r == recs[Len(recs)]
             k == Cardinality({i \in 1..Len(init) : init[i].pref >= r.pref})
         IN  SubSeq(init, 1, k) \o <<r>> \o SubSeq(init, k + 1, Len(init))

sort_by_pref_desc(recs) == stable_sort_desc(recs)

sort_by_pref(recs) == stable_sort(recs)

\* lookup_ip(name).await.ok()? followed by .iter().next()
first_ip(name, res) ==
    IF res.ok /\ res.n >= 1 THEN [host |-> name, n |-> 1] ELSE NoAddr

Resolved(addr, via, mx, exchange, queries) ==
    [addr |-> addr,
     dns |-> [via |-> via, mx |-> mx, exchange |-> exchange, queries |-> queries]]

get_mx_record(fqdn, env) ==
    IF ~env.mx_resolver THEN Resolved(NoAddr, "failed", NoMx, "", <<>>)
    ELSE IF ~env.mx.ok
    THEN Resolved(NoAddr, "failed", env.mx, "", <<<<"MX", fqdn>>>>)
    ELSE LET mx_rec == sort_by_pref(env.mx.recs) IN
    IF mx_rec = <<>>
    THEN Resolved(NoAddr, "failed", env.mx, "", <<<<"MX", fqdn>>>>)
    ELSE LET mx_domain == mx_rec[1].exchange
             ip == first_ip(mx_domain, env.exchange_ips)
         IN  Resolved(ip, IF ip = NoAddr THEN "failed" ELSE "mx", env.mx,
                      mx_domain, <<<<"MX", fqdn>>, <<"IP", mx_domain>>>>)

get_ip(fqdn, env) ==
    IF ~env.ip_resolver THEN Resolved(NoAddr, "failed", NoMx, "", <<>>)
    ELSE LET ip == first_ip(fqdn, env.domain_ips) IN
         Resolved(ip, IF ip = NoAddr THEN "failed" ELSE "direct", NoMx, "",
                  <<<<"IP", fqdn>>>>)

----------------------------------------------------------------------------
(* The dispatcher: Client::run and Client::send_to_ip *)

RunPaths ==
    {Regular(Path("a", FQDN("d1"))), Regular(Path("b", FQDN("d1"))),
     Regular(Path("a", FQDN("d2"))), Regular(Path("a", Literal("10.0.0.9"))),
     Postmaster}

TheData == <<"hello", ".">>

\* A byte that is not valid UTF-8.
BadByte == "xFF"

RunChunks == {Line(220), Line(250), Line(550), <<"2">>, <<BadByte>> \o CRLF}

\* The program's read buffer is BufLen bytes, all zero at first.
BufLen == 1024

\* The domains of the regular forward paths (a HashSet: no order).
domains(forward_paths) ==
    {forward_paths[i].path.domain :
        i \in {j \in 1..Len(forward_paths) : forward_paths[j].tag = "Regular"}}

\* paths_to without the comparison of the domains.
paths_to_any(forward_paths, domain) ==
    LET regular == SelectSeq(forward_paths, LAMBDA fp : fp.tag = "Regular")
    IN  [i \in 1..Len(regular) |-> regular[i].path]

\* The regular paths to one domain, in message order.
RECURSIVE paths_to(_, _)
paths_to(forward_paths, domain) ==
    IF forward_paths = <<>> THEN <<>>
    ELSE LET fp == Head(forward_paths)
             rest == paths_to(Tail(forward_paths), domain)
         IN  IF fp.tag = "Regular" /\ fp.path.domain = domain
             THEN <<fp.path>> \o rest
             ELSE rest

\* Every order in which the HashSet of domains may be iterated.
Orders(S) ==
    {o \in [1..Cardinality(S) -> S] : \A i, j \in 1..Cardinality(S) : o[i] = o[j] => i = j}

RunInit ==
    /\ message \in SeqsUpTo(RunPaths, MaxRcpts)
    /\ pc = "group"
    /\ crash = ""
    /\ paths_by_domain = <<>>
    /\ group = 0
    /\ outcome = <<>>
    /\ dns = NoDns
    /\ address = NoAddr
    /\ session = initiate(<<>>)
    /\ buf = <<>>
    /\ wire = <<>>
    /\ reads = 0
    /\ read_log = <<>>
    /\ wrote = <<>>
    /\ SessionIdle
    /\ FragIdle

Panic(why) ==
    /\ crash' = why
    /\ pc' = "panicked"

\* run, lines 134-166: the postmaster hook and the grouping by domain.
Group ==
    /\ pc = "group"
    /\ IF \E i \in 1..Len(message) : message[i].tag = "Postmaster"
       THEN /\ Panic("postmaster")
            /\ UNCHANGED <<paths_by_domain, group, outcome>>
       ELSE /\ \E order \in Orders(domains(message)) :
                paths_by_domain' =
                    [k \in 1..Len(order) |->
                        [domain |-> order[k], paths |-> paths_to(message, order[k])]]
            /\ group' = 1
            /\ outcome' = [k \in 1..Len(paths_by_domain') |-> "pending"]
            /\ pc' = IF paths_by_domain' = <<>> THEN "end" ELSE "resolve"
            /\ UNCHANGED crash
    /\ UNCHANGED <<message, dns, address, session, buf, wire, reads, read_log,
                   wrote>>
    /\ UNCHANGED <<sessionVars, fragVars>>

\* run, lines 169-181: the address of the current group.
resolve(domain, env) ==
    IF domain.kind = "Literal"
    THEN Resolved([host |-> domain.name, n |-> 0], "literal", NoMx, "", <<>>)
    ELSE LET m == get_mx_record(domain.name, env) IN
         IF m.addr # NoAddr THEN m
         ELSE LET d == get_ip(domain.name, env) IN
              Resolved(d.addr, d.dns.via, m.dns.mx, m.dns.exchange,
                       m.dns.queries \o d.dns.queries)

Resolve ==
    /\ pc = "resolve"
    /\ \E env \in DnsEnvs :
        LET r == resolve(paths_by_domain[group].domain, env) IN
        /\ dns' = r.dns
        /\ address' = r.addr
        /\ IF r.addr = NoAddr
           THEN /\ Panic("no_record")
                /\ outcome' = [outcome EXCEPT ![group] = "ResolutionFailure"]
           ELSE /\ pc' = "connect"
                /\ UNCHANGED <<crash, outcome>>
    /\ UNCHANGED <<message, paths_by_domain, group, session, buf, wire, reads,
                   read_log, wrote>>
    /\ UNCHANGED <<sessionVars, fragVars>>

\* send_to_ip, lines 207-222: the bounded connect, then the Client and the buffer.
Connect ==
    /\ pc = "connect"
    /\ \E result \in {"connected", "timeout", "refused"} :
        IF result = "connected"
        THEN /\ session' =
                    initiate([i \in 1..Len(paths_by_domain[group].paths) |->
                                Regular(paths_by_domain[group].paths[i])])
             /\ pc' = "session"
             /\ UNCHANGED <<crash, outcome>>
        ELSE /\ Panic("unwrap_send_to_ip")
             /\ outcome' = [outcome EXCEPT ![group] =
                    IF result = "timeout" THEN "ConnectionTimeout" ELSE "ConnectionError"]
             /\ UNCHANGED session
    /\ dns' = NoDns
    /\ buf' = <<>>
    /\ wire' = <<>>
    /\ reads' = 0
    /\ read_log' = <<>>
    /\ wrote' = <<>>
    /\ UNCHANGED <<message, paths_by_domain, group, address>>
    /\ UNCHANGED <<sessionVars, fragVars>>

\* What one stream.read may give: an error, a zero-length read, or bytes.
ReadResult(kind, bytes) == [kind |-> kind, bytes |-> bytes]
ReadResults ==
    {ReadResult("error", <<>>), ReadResult("eof", <<>>)}
        \cup {ReadResult("bytes", ch) : ch \in RunChunks}

\* String::from_utf8_lossy: invalid bytes become U+FFFD, a non-ASCII character.
from_utf8_lossy(bytes) ==
    [i \in 1..Len(bytes) |-> IF bytes[i] = BadByte THEN NA ELSE bytes[i]]

\* A read of Len(bytes) bytes overwrites the front of the buffer only.
overwrite(b, bytes) == bytes \o SubSeq(b, Len(bytes) + 1, Len(b))

\* Byte i of the BufLen-byte buffer whose written prefix is b.
buf_at(b, i) == IF i <= Len(b) THEN b[i] ELSE "NUL"

buf_ends_with(b, suffix) ==
    \A k \in 1..Len(suffix) : buf_at(b, BufLen - Len(suffix) + k) = suffix[k]

buf_starts_with(b, prefix) ==
    \A k \in 1..Len(prefix) : buf_at(b, k) = prefix[k]

\* The DATA block: each body line, then the lone dot.
DataBlock ==
    [i \in 1..Len(TheData) |-> Cmd("Line", <<TheData[i]>>)] \o <<Cmd("Dot", <<>>)>>

\* send_to_ip, lines 232-234: the test that starts the transmission of the body.
sends_data(c, b) ==
    /\ c.state = "SendingData"
    /\ buf_ends_with(b, CRLF)
    /\ buf_starts_with(b, <<"3", "5", "4">>)

Iter(c, b, w, result) == [session |-> c, buf |-> b, wire |-> w, result |-> result]

\* loop_iteration that writes every command twice.
loop_iteration_twice(c, b, w, rd, rd2, wok) ==
    IF rd.kind = "error" THEN Iter(c, b, w, "panic_read")
    ELSE IF rd.kind = "eof" THEN Iter(c, b, w, "closed")
    ELSE LET b1 == overwrite(b, rd.bytes)
             read == Len(rd.bytes)
             data == sends_data(c, b1)
             w1 == IF data THEN w \o DataBlock ELSE w
         IN
         IF data /\ ~wok THEN Iter(c, b1, w, "panic_write")
         ELSE IF data /\ rd2.kind = "error" THEN Iter(c, b1, w1, "panic_read")
         ELSE IF data /\ rd2.kind = "eof" THEN Iter(c, b1, w1, "panic_oh_no")
         ELSE LET b2 == IF data THEN overwrite(b1, rd2.bytes) ELSE b1 IN
         IF /\ data
            /\ buf_starts_with(b2, <<"2", "5", "0">>)
            /\ buf_ends_with(b2, CRLF)
         THEN Iter(c, b2, w1, "delivered")
         ELSE LET r == push(c, from_utf8_lossy(SubSeq(b2, 1, read))) IN
              IF r.panic THEN Iter(r.client, b2, w1, "panic_session")
              ELSE IF r.ret = None THEN Iter(r.client, b2, w1, "continue")
              ELSE IF wok THEN Iter(r.client, b2, w1 \o <<r.ret, r.ret>>, "continue")
              ELSE Iter(r.client, b2, w1, "err_write")

\* loop_iteration that treats every zero-length read as line 245 does.
loop_iteration_eof_panics(c, b, w, rd, rd2, wok) ==
    IF rd.kind = "error" THEN Iter(c, b, w, "panic_read")
    ELSE IF rd.kind = "eof" THEN Iter(c, b, w, "panic_oh_no")
    ELSE LET b1 == overwrite(b, rd.bytes)
             read == Len(rd.bytes)
             data == sends_data(c, b1)
             w1 == IF data THEN w \o DataBlock ELSE w
         IN
         IF data /\ ~wok THEN Iter(c, b1, w, "panic_write")
         ELSE IF data /\ rd2.kind = "error" THEN Iter(c, b1, w1, "panic_read")
         ELSE IF data /\ rd2.kind = "eof" THEN Iter(c, b1, w1, "panic_oh_no")
         ELSE LET b2 == IF data THEN overwrite(b1, rd2.bytes) ELSE b1 IN
         IF /\ data
            /\ buf_starts_with(b2, <<"2", "5", "0">>)
            /\ buf_ends_with(b2, CRLF)
         THEN Iter(c, b2, w1, "delivered")
         ELSE LET r == push(c, from_utf8_lossy(SubSeq(b2, 1, read))) IN
              IF r.panic THEN Iter(r.client, b2, w1, "panic_session")
              ELSE IF r.ret = None THEN Iter(r.client, b2, w1, "continue")
              ELSE IF wok THEN Iter(r.client, b2, Append(w1, r.ret), "continue")
              ELSE Iter(r.client, b2, w1, "err_write")

\* send_to_ip, lines 225-255: one iteration of the read loop. rd is the read at
\* line 225, rd2 the read at line 243, wok whether the writes succeed.
loop_iteration(c, b, w, rd, rd2, wok) ==
    IF rd.kind = "error" THEN Iter(c, b, w, "panic_read")
    ELSE IF rd.kind = "eof" THEN Iter(c, b, w, "closed")
    ELSE LET b1 == overwrite(b, rd.bytes)
             read == Len(rd.bytes)
             data == sends_data(c, b1)
             w1 == IF data THEN w \o DataBlock ELSE w
         IN
         IF data /\ ~wok THEN Iter(c, b1, w, "panic_write")
         ELSE IF data /\ rd2.kind = "error" THEN Iter(c, b1, w1, "panic_read")
         ELSE IF data /\ rd2.kind = "eof" THEN Iter(c, b1, w1, "panic_oh_no")
         ELSE LET b2 == IF data THEN overwrite(b1, rd2.bytes) ELSE b1 IN
         IF /\ data
            /\ buf_starts_with(b2, <<"2", "5", "0">>)
            /\ buf_ends_with(b2, CRLF)
         THEN Iter(c, b2, w1, "delivered")
         ELSE LET r == push(c, from_utf8_lossy(SubSeq(b2, 1, read))) IN
              IF r.panic THEN Iter(r.client, b2, w1, "panic_session")
              ELSE IF r.ret = None THEN Iter(r.client, b2, w1, "continue")
              ELSE IF wok THEN Iter(r.client, b2, Append(w1, r.ret), "continue")
              ELSE Iter(r.client, b2, w1, "err_write")

\* send_to_ip returned Ok(()): the loop of run goes to the next group.
Returned(how) ==
    /\ outcome' = [outcome EXCEPT ![group] = how]
    /\ group' = group + 1
    /\ pc' = IF group = Len(paths_by_domain) THEN "end" ELSE "resolve"
    /\ UNCHANGED crash

\* The locals of send_to_ip are dropped when it returns.
Dropped ==
    /\ session' = initiate(<<>>)
    /\ buf' = <<>>
    /\ wire' = <<>>
    /\ reads' = 0

Failed(why, how) ==
    /\ Panic(why)
    /\ outcome' = [outcome EXCEPT ![group] = how]
    /\ UNCHANGED group

\* The read at line 243 takes place only when the body has been written.
SecondReads(c, b, rd) ==
    IF rd.kind = "bytes" /\ sends_data(c, overwrite(b, rd.bytes))
    THEN ReadResults
    ELSE {ReadResult("eof", <<>>)}

SessionStep ==
    /\ pc = "session"
    /\ IF should_exit(session)
       THEN /\ Returned("Exited")
            /\ Dropped
            /\ read_log' = <<>>
            /\ wrote' = <<>>
       ELSE \E rd \in ReadResults, wok \in BOOLEAN :
            \E rd2 \in SecondReads(session, buf, rd) :
            /\ rd.kind = "bytes" => reads < MaxReads
            /\ LET it == loop_iteration(session, buf, wire, rd, rd2, wok) IN
                /\ IF it.result \in {"closed", "delivered"}
                   THEN Dropped
                   ELSE /\ session' = it.session
                        /\ buf' = it.buf
                        /\ wire' = it.wire
                        /\ reads' = IF rd.kind = "bytes" THEN reads + 1 ELSE reads
                /\ wrote' = SubSeq(it.wire, Len(wire) + 1, Len(it.wire))
                /\ read_log' = IF rd.kind = "bytes" /\ wok
                                    /\ sends_data(session, overwrite(buf, rd.bytes))
                                THEN <<rd.kind, rd2.kind>>
                                ELSE <<rd.kind>>
                /\ CASE it.result = "continue" ->
                            UNCHANGED <<pc, crash, outcome, group>>
                     [] it.result = "closed" -> Returned("Closed")
                     [] it.result = "delivered" -> Returned("Delivered")
                     [] it.result = "panic_read" -> Failed("unwrap_read", "ReadError")
                     [] it.result = "panic_write" -> Failed("unwrap_write", "WriteError")
                     [] it.result = "panic_oh_no" -> Failed("oh_no", "SessionPanic")
                     [] it.result = "panic_session" -> Failed("session", "SessionPanic")
                     [] it.result = "err_write" ->
                            Failed("unwrap_send_to_ip", "WriteError")
    /\ UNCHANGED <<message, paths_by_domain, dns, address>>
    /\ UNCHANGED <<sessionVars, fragVars>>

\* run, line 193: the todo!() after the loop over the groups.
Finish ==
    /\ pc = "end"
    /\ Panic("end_of_run")
    /\ UNCHANGED <<message, paths_by_domain, group, outcome, dns, address,
                   session, buf, wire, reads, read_log, wrote>>
    /\ UNCHANGED <<sessionVars, fragVars>>

RunNext ==
    \/ Group
    \/ Resolve
    \/ Connect
    \/ SessionStep
    \/ Finish

SpecRun == RunInit /\ [][RunNext]_vars

----------------------------------------------------------------------------
(* Claims about the dispatcher (checked under SpecRun) *)

Groups == DOMAIN outcome

\* The process has stopped while some group was never dispatched.
StoppedEarly == pc = "panicked" /\ \E h \in Groups : outcome[h] = "pending"

SessionFailures == {"SessionPanic", "ReadError", "WriteError"}
ConnectFailures == {"ConnectionTimeout", "ConnectionError"}

\* C7: with recipients in two domains there are two groups, and a fatal failure
\* of one group's session does not keep the other group from being dispatched.
C7_IndependentSessions ==
    (Cardinality(domains(message)) = 2 /\ pc # "group" /\ crash # "postmaster")
        => /\ Len(paths_by_domain) = 2
           /\ (\E g \in Groups : outcome[g] \in SessionFailures) => ~StoppedEarly

\* C8: a connect attempt that times out or fails is a failure of its group only;
\* the other groups of the message are still dispatched.
C8_ConnectFailureIsPerGroup ==
    (\E g \in Groups : outcome[g] \in ConnectFailures) => ~StoppedEarly

\* C9: when the MX-based lookup and the direct lookup both fail, the group is
\* skipped and the run goes on; the process does not stop on it.
C9_ResolutionFailureSkipsGroup ==
    \A g \in Groups : outcome[g] = "ResolutionFailure" => crash # "no_record"

\* The first-seen record among those of the numerically lowest preference.
FirstLowest(recs) ==
    CHOOSE i \in 1..Len(recs) :
        /\ \A j \in 1..Len(recs) : recs[i].pref <= recs[j].pref
        /\ \A j \in 1..(i - 1) : recs[j].pref > recs[i].pref

\* C10: when the MX lookup returns at least one record, the exchange whose
\* address is looked up is the one of the lowest preference value, the first
\* seen among equals.
C10_LowestPreferenceFirstSeen ==
    (dns.mx.ok /\ dns.mx.recs # <<>>)
        => /\ dns.exchange = dns.mx.recs[FirstLowest(dns.mx.recs)].exchange
           /\ \E q \in 1..Len(dns.queries) : dns.queries[q] = <<"IP", dns.exchange>>

C10_Witness ==
    /\ dns.via = "mx"
    /\ Len(dns.mx.recs) = 2
    /\ dns.mx.recs[1].pref = 20
    /\ dns.mx.recs[2].pref = 10
    /\ dns.mx.recs[1].exchange # dns.mx.recs[2].exchange
    /\ address.host = dns.mx.recs[2].exchange

\* The current group's domain, once the grouping is done.
CurrentDomain == paths_by_domain[group].domain

\* A resolution has just been performed for the current group.
JustResolved == dns.via # "none"

HasQuery(q) == \E i \in 1..Len(dns.queries) : dns.queries[i] = q

\* C11: a literal IP is used as it is with no DNS query; with at least one MX
\* record the address is that of the selected exchange; the domain name itself
\* is looked up only if there are no MX records; the result is nothing only if
\* every lookup fails.
C11_ResolutionCases ==
    JustResolved
        => /\ CurrentDomain.kind = "Literal"
                => (dns.queries = <<>> /\ address.host = CurrentDomain.name)
           /\ (CurrentDomain.kind = "FQDN" /\ dns.mx.recs # <<>> /\ address # NoAddr)
                => address.host = dns.exchange
           /\ (CurrentDomain.kind = "FQDN" /\ HasQuery(<<"IP", CurrentDomain.name>>))
                => dns.mx.recs = <<>>
           /\ address = NoAddr => dns.via = "failed"

----------------------------------------------------------------------------
(* Further claims about one session (checked under Spec) *)

\* The position of a state in the forward order of the session.
Rank(state) ==
    CASE state = "Initiated" -> 0
      [] state = "Greeted" -> 1
      [] state = "SentReversePath" -> 2
      [] state = "SendingForwardPaths" -> 3
      [] state = "SendingData" -> 4
      [] state = "ShouldExit" -> 5

\* C12: over any sequence of push calls the session state never moves back to
\* an earlier state, and no step leaves ShouldExit.
C12_ForwardOnly ==
    [][/\ Rank(client'.state) >= Rank(client.state)
       /\ client.state = "ShouldExit" => client'.state = "ShouldExit"]_vars

C12_Witness ==
    /\ client.state = "Greeted"
    /\ Len(fed) >= 2
    /\ last.before.state = "Greeted"

\* The last push call handed over one whole reply line, starting at a line
\* boundary of the buffer.
LastWholeLine ==
    /\ last.called
    /\ ends_with(last.frag, CRLF)
    /\ last.before.reply = <<>> \/ ends_with(last.before.reply, CRLF)

\* The code of a reply line cannot be parsed or is mapped to no response code.
Unrecognized(line) ==
    \/ Len(line) < 3
    \/ ~is_ascii(line)
    \/ from_code(parse_u16(SubSeq(line, 1, 3))) = NoCode

\* The response codes on which a state goes forward.
Accepted(state) ==
    CASE state = "Initiated" -> {"ServiceReady"}
      [] state \in {"Greeted", "SentReversePath"} -> {"Okay"}
      [] state = "SendingForwardPaths" -> {"Okay", "UserNotLocalWillForward"}
      [] OTHER -> {}

\* C15: the session goes forward and emits a command only on a reply line whose
\* code is accepted in its state, and a reply line whose code is unparseable or
\* unmapped is passed over: push returns nothing, without a panic, and the
\* state stays as it was.
C15_UnrecognizedNeverSuccess ==
    LastWholeLine
        => /\ (client.state # last.before.state \/ last.ret # None)
                => /\ ~Unrecognized(last.frag)
                   /\ from_code(parse_u16(SubSeq(last.frag, 1, 3)))
                        \in Accepted(last.before.state)
           /\ Unrecognized(last.frag)
                => /\ ~panicked
                   /\ last.ret = None
                   /\ client.state = last.before.state

\* The reply lines up to the positive reply to MAIL.
C16_Replies == <<Line(220), Line(250), Line(250)>>

\* C16: the positive reply to MAIL takes the session from SentReversePath to
\* SendingForwardPaths and the Rcpt it emits names the first forward path.
C16_FirstRcptNamesFirstPath ==
    (Len(paths0) >= 1 /\ IsPrefix(fed, C16_Replies))
        => /\ ~panicked
           /\ Len(fed) = 3
                => /\ last.before.state = "SentReversePath"
                   /\ client.state = "SendingForwardPaths"
                   /\ last.ret = Rcpt(paths0[1])

C20_Replies(n) == <<Line(220), Line(250), Line(250)>> \o [i \in 1..n |-> Line(250)]

\* The Rcpt commands among the emitted commands, in order.
EmittedRcpts == SelectSeq(emitted, LAMBDA a : a.verb = "Rcpt")

\* C20: a session with n >= 1 forward paths fed only positive replies names
\* every forward path in exactly one Rcpt, n in all, and emits Data on the
\* positive reply to the last of them and not before.
C20_EachPathOneRcpt ==
    (Len(paths0) >= 1 /\ IsPrefix(fed, C20_Replies(Len(paths0))))
        => /\ ~panicked
           /\ \A i, j \in 1..Len(EmittedRcpts) :
                EmittedRcpts[i] = EmittedRcpts[j] => i = j
           /\ \A i \in 1..Len(EmittedRcpts) :
                \E k \in 1..Len(paths0) : EmittedRcpts[i] = Rcpt(paths0[k])
           /\ Len(fed) < Len(paths0) + 3
                => \A i \in 1..Len(emitted) : emitted[i] # Data
           /\ Len(fed) = Len(paths0) + 3
                => /\ Len(EmittedRcpts) = Len(paths0)
                   /\ last.ret = Data

----------------------------------------------------------------------------
(* Further claims about the dispatcher (checked under SpecRun) *)

\* C13: an iteration of the read loop writes at most one action to the stream
\* (one command, or the message body), and only after a read that completed a
\* reply line; the commands written never outnumber the reads of reply bytes.
C13_OneActionPerReply ==
    [][pc = "session"
        => \/ wrote' = <<>>
           \/ /\ Len(wrote') = 1
              /\ wrote'[1].verb \in {"Ehlo", "Mail", "Rcpt", "Data"}
              /\ read_log' = <<"bytes">>
              /\ wire' = Append(wire, wrote'[1])
              /\ ends_with(session'.reply, CRLF)
              /\ Len(wire') <= reads'
           \/ /\ session.state = "SendingData"
              /\ wrote' = DataBlock
              /\ read_log'[1] = "bytes"]_vars

C13_Witness ==
    /\ pc = "session"
    /\ Len(wire) = 1
    /\ reads = 2

C17_Replies == Line(220) \o Line(250) \o Line(250) \o Line(250)

\* The number of times the DATA block occurs in what was written.
DataBlocks(w) ==
    Cardinality({i \in 1..Len(w) :
        /\ i + Len(DataBlock) - 1 <= Len(w)
        /\ SubSeq(w, i, i + Len(DataBlock) - 1) = DataBlock})

\* C17: a session with one recipient that reads the positive replies gets to
\* Data without a panic, and once the 354 reply to Data has been read into the
\* buffer the DATA block (each body line, then the lone dot) has been written
\* exactly once, at the end of what was written.
C17_DataBlockWrittenOnce ==
    /\ (pc \in {"session", "panicked"} /\ IsPrefix(session.reply, C17_Replies))
            => crash # "session"
    /\ (session.state = "SendingData" /\ starts_with(buf, <<"3", "5", "4">>))
            => /\ ends_with(wire, DataBlock)
               /\ DataBlocks(wire) = 1

\* The positions of the regular forward paths of the message.
RegularAt == {i \in 1..Len(message) : message[i].tag = "Regular"}

\* The places of the grouping: group g, position k in its list of paths.
Places ==
    {pl \in Groups \X (1..Len(message)) : pl[2] <= Len(paths_by_domain[pl[1]].paths)}

\* C19: once run has grouped the forward paths there is exactly one group for
\* each domain of a regular forward path, no group is empty, every path of a
\* group has the group's domain, every regular forward path of the message is in
\* exactly one group, and a session is initiated with the paths of its group.
C19_GroupingPartitions ==
    (pc \notin {"group", "idle"} /\ crash # "postmaster")
        => /\ {paths_by_domain[g].domain : g \in Groups}
                = {message[i].path.domain : i \in RegularAt}
           /\ \A g, h \in Groups :
                paths_by_domain[g].domain = paths_by_domain[h].domain => g = h
           /\ \A g \in Groups :
                /\ paths_by_domain[g].paths # <<>>
                /\ \A k \in 1..Len(paths_by_domain[g].paths) :
                     paths_by_domain[g].paths[k].domain = paths_by_domain[g].domain
           /\ \A i \in RegularAt :
                \E g \in Groups : \E k \in 1..Len(paths_by_domain[g].paths) :
                    paths_by_domain[g].paths[k] = message[i].path
           /\ Cardinality(Places) = Cardinality(RegularAt)
           /\ pc = "session"
                => /\ session.forward_paths # <<>>
                   /\ \A i \in 1..Len(session.forward_paths) :
                        /\ session.forward_paths[i].tag = "Regular"
                        /\ session.forward_paths[i].path.domain
                                = paths_by_domain[group].domain

C19_Witness ==
    /\ pc = "session"
    /\ Len(paths_by_domain) = 2
    /\ group = 2
    /\ wire # <<>>

====
